---- MODULE Spec2Model ----
(***************************************************************************)
(* Model of the demand-sheet submission handler (api/submit.js): the       *)
(* extraction of Demand Rows from a Document AI document, and the          *)
(* upload / OCR / cleanup / append lifecycle of one request, for several   *)
(* requests handled concurrently against one bucket and one spreadsheet.   *)
(* The document handler (part_001) is modelled after it, and the two pure  *)
(* functions are also run alone over bounded inputs.                       *)
(*                                                                         *)
(* Encoding of JavaScript values:                                          *)
(*   - a string is a sequence of one-character strings;                    *)
(*   - a property that may be undefined is None (<<>>) or Some(v) (<<v>>); *)
(*   - a call that may throw yields [thrown |-> BOOLEAN, value |-> v].     *)
(***************************************************************************)
EXTENDS Integers, Sequences, FiniteSets, TLC

None == <<>>
Some(v) == <<v>>
IsSome(o) == Len(o) = 1
Get(o) == o[1]

Returned(v) == [thrown |-> FALSE, value |-> v]
Thrown == [thrown |-> TRUE, value |-> <<>>]

(***************************************************************************)
(* The catalog of item names, in the order of the source.                  *)
(***************************************************************************)
FIXED_ITEM_LIST ==
  << <<"S","a","m","b","h","a","r">>,
     <<"R","e","d"," ","C","h","u","t","n","e","y">>,
     <<"D","o","s","a"," ","B","a","t","t","e","r">>,
     <<"I","d","l","i"," ","B","a","t","t","e","r">>,
     <<"V","a","d","a"," ","B","a","t","t","e","r">>,
     <<"R","a","w","a"," ","m","i","x">>,
     <<"O","n","i","o","n"," ","m","a","s","a","l","a">>,
     <<"U","p","m","a"," ","S","o","o","j","i">>,
     <<"G","a","r","l","i","c"," ","P","a","s","t","e">>,
     <<"P","o","d","i"," ","M","a","s","a","l","a">>,
     <<"S","u","g","a","r">>,
     <<"P","o","h","a">>,
     <<"B","e","s","a","n">>,
     <<"S","a","r","s","o","n"," ","(","M","u","s","t","a","r","d"," ","s","e","e","d",")">>,
     <<"K","a","l","i"," ","M","i","r","c","h">>,
     <<"J","e","e","r","a">>,
     <<"K","a","j","u">>,
     <<"P","i","n","e","a","p","p","l","e"," ","H","a","l","w","a">>,
     <<"K","a","c","h","a"," ","P","e","a","n","u","t"," ","C","h","i","l","k","e"," ","w","a","l","a">>,
     <<"D","h","a","n","i","a"," ","W","h","o","l","e">>,
     <<"R","i","c","e">>,
     <<"A","t","t","a">>,
     <<"F","o","r","t","u","n","e"," ","R","e","f","i","n","e","d">>,
     <<"D","e","s","i"," ","G","h","e","e">>,
     <<"R","o","a","s","t","e","d"," ","C","h","a","n","a">>,
     <<"S","t","a","f","f"," ","D","a","l">>,
     <<"W","h","o","l","e"," ","r","e","d"," ","c","h","i","l","l","i">>,
     <<"A","c","h","a","r">>,
     <<"C","h","h","o","l","e">>,
     <<"R","a","j","m","a">>,
     <<"C","h","a","n","a"," ","D","a","l">>,
     <<"S","a","r","s","o","n"," ","T","e","l">>,
     <<"M","e","e","t","h","a"," ","S","o","d","a">>,
     <<"R","o","a","s","t","e","d"," ","P","e","a","n","u","t","s">>,
     <<"S","o","y","a"," ","B","a","d","i">>,
     <<"F","i","l","t","e","r"," ","C","o","f","f","e","e"," ","P","o","w",".">>,
     <<"C","h","a","i"," ","P","a","t","t","i">>,
     <<"O","n","i","o","n","s">>,
     <<"T","o","m","a","t","o","e","s">>,
     <<"G","r","e","e","n"," ","C","h","i","l","l","i","e","s","(","H","a","r","i"," ","M","i","r","c","h",")">>,
     <<"C","o","r","i","a","n","d","e","r"," ","l","e","a","v","e","s","(","D","h","a","n","i","y","a"," ","P","a","t","t","a",")">>,
     <<"C","u","r","r","y"," ","L","e","a","v","e","s"," ","(","K","a","r","i"," ","P","a","t","t","a",")">>,
     <<"B","a","n","a","n","a"," ","L","e","a","v","e","s","(","K","e","l","a"," ","P","a","t","t","a",")">>,
     <<"G","i","n","g","e","r">>,
     <<"C","o","c","o","n","u","t"," ","C","r","u","s","h">>,
     <<"C","a","r","r","o","t">>,
     <<"B","e","a","n","s">>,
     <<"P","o","t","a","t","o","(","a","l","o","o",")">>,
     <<"G","a","r","l","i","c">>,
     <<"M","i","n","t","(","P","u","d","i","n","a",")">>,
     <<"L","e","m","o","n">>,
     <<"S","t","a","f","f"," ","V","e","g",".">>,
     <<"D","e","g","g","i"," ","M","i","r","c","h">>,
     <<"G","a","r","a","m"," ","M","a","s","a","l","a">>,
     <<"H","i","n","g"," ","P","o","w","d","e","r">>,
     <<"D","h","a","n","i","a"," ","P","o","w","d","e","r">>,
     <<"K","i","t","c","h","e","n"," ","K","i","n","g">>,
     <<"C","h","a","t"," ","M","a","s","a","l","a">>,
     <<"H","a","l","d","i"," ","P","o","w","d","e","r">>,
     <<"H","a","r","i"," ","I","l","a","y","c","h","i">>,
     <<"T","a","t","a"," ","S","a","l","t">>,
     <<"B","l","a","c","k"," ","S","a","l","t">>,
     <<"5","0","M","L"," ","C","o","n","t","a","i","n","e","r">>,
     <<"1","0","0","M","L"," ","C","o","n","t","a","i","n","e","r">>,
     <<"2","5","0","M","L"," ","C","o","n","t","a","i","n","e","r">>,
     <<"3","0","0","M","L"," ","C","o","n","t","a","i","n","e","r">>,
     <<"5","0","0","M","L"," ","C","o","n","t","a","i","n","e","r">>,
     <<"P","o","d","i"," ","I","d","l","i"," ","C","o","n","t","a","i","n","e","r">>,
     <<"S","i","l","v","e","r"," ","c","o","n","t","a","i","n","e","r">>,
     <<"V","a","d","a"," ","L","i","f","a","f","a">>,
     <<"D","o","s","a"," ","B","o","x"," ","S","m","a","l","l">>,
     <<"D","o","s","a"," ","B","o","x"," ","B","i","g">>,
     <<"1","6","*","2","0"," ","B","i","o","p","o","l","y","t","h","e","n","e">>,
     <<"1","3","*","1","6"," ","B","i","o","p","o","l","y","t","h","e","n","e">>,
     <<"B","i","o"," ","G","a","r","b","a","g","e","b","a","g"," ","B","i","g"," ","S","i","z","e">>,
     <<"P","r","i","n","t","e","r"," ","R","o","l","l">>,
     <<"B","i","o"," ","S","p","o","o","n">>,
     <<"W","o","o","d","e","n"," ","P","l","a","t","e","s">>,
     <<"P","a","p","e","r"," ","B","o","w","l">>,
     <<"F","i","l","t","e","r"," ","C","o","f","f","e","e"," ","G","l","a","s","s">>,
     <<"M","a","s","a","l","a"," ","C","h","h","a","c","h","h"," ","G","l","a","s","s">>,
     <<"F","i","l","t","e","r"," ","C","o","f","f","e","e"," ","P","a","c","k","a","g","i","n","g">>,
     <<"M","a","s","a","l","a"," ","C","h","h","a","c","h","h"," ","P","a","c","k","a","g","i","n","g">>,
     <<"T","a","p","e">>,
     <<"C","l","e","a","n"," ","W","r","a","p">>,
     <<"T","i","s","s","u","e","s">>,
     <<"C","h","e","f"," ","C","a","p">>,
     <<"B","u","t","t","e","r"," ","P","a","p","e","r">>,
     <<"D","e","l","i","v","e","r","y"," ","B","a","g">> >>

\* Array.prototype.includes on the catalog: strict equality with an entry.
Includes(list, x) == \E i \in 1..Len(list) : list[i] = x

Digits == {"0", "1", "2", "3", "4", "5", "6", "7", "8", "9"}
WhiteSpace == {" ", "\t", "\n", "\r"}

\* String.prototype.trim
RECURSIVE TrimStart(_)
TrimStart(s) ==
  IF Len(s) > 0 /\ Head(s) \in WhiteSpace THEN TrimStart(Tail(s)) ELSE s

RECURSIVE TrimEnd(_)
TrimEnd(s) ==
  IF Len(s) > 0 /\ s[Len(s)] \in WhiteSpace
  THEN TrimEnd(SubSeq(s, 1, Len(s) - 1))
  ELSE s

Trim(s) == TrimEnd(TrimStart(s))

\* qtyText.trim().replace(/\D/g, '')
StripNonDigits(s) == SelectSeq(s, LAMBDA c : c \in Digits)
Quantity(qtyText) == StripNonDigits(Trim(qtyText))

\* String.prototype.substring(start, end): both indices are clamped to
\* [0, length] and swapped when start > end.
Clamp(n, len) == IF n < 0 THEN 0 ELSE IF n > len THEN len ELSE n
Substring(text, start, end) ==
  LET s == Clamp(start, Len(text))
      e == Clamp(end, Len(text))
      lo == IF s <= e THEN s ELSE e
      hi == IF s <= e THEN e ELSE s
  IN SubSeq(text, lo + 1, hi)

\* x || 0 for an index that may be undefined
OrZero(o) == IF IsSome(o) /\ Get(o) # 0 THEN Get(o) ELSE 0

\* the texts of the segments joined, segment by segment
RECURSIVE JoinSegments(_, _, _)
JoinSegments(text, segs, i) ==
  IF i > Len(segs)
  THEN <<>>
  ELSE Substring(text, OrZero(segs[i].startIndex), OrZero(segs[i].endIndex))
         \o JoinSegments(text, segs, i + 1)

\* a resolver that joins the segments' texts instead of spanning them
getTextFromSpanJoined(document, textAnchor) ==
  IF ~IsSome(textAnchor) \/ ~IsSome(Get(textAnchor).textSegments)
  THEN Returned(<<>>)
  ELSE LET segs == Get(Get(textAnchor).textSegments)
       IN IF Len(segs) = 0 \/ ~IsSome(document.text)
          THEN Thrown
          ELSE Returned(JoinSegments(Get(document.text), segs, 1))

(***************************************************************************)
(* getTextFromSpan(document, textAnchor).  textAnchor is None or           *)
(* Some([textSegments |-> None or Some(sequence of segments)]).  Reading   *)
(* textSegments[0].startIndex of an empty array, or substring of an        *)
(* undefined text, throws a TypeError.                                     *)
(***************************************************************************)
getTextFromSpan(document, textAnchor) ==
  IF ~IsSome(textAnchor) \/ ~IsSome(Get(textAnchor).textSegments)
  THEN Returned(<<>>)
  ELSE LET segs == Get(Get(textAnchor).textSegments)
       IN IF Len(segs) = 0 \/ ~IsSome(document.text)
          THEN Thrown
          ELSE Returned(Substring(Get(document.text),
                                  OrZero(segs[1].startIndex),
                                  OrZero(segs[Len(segs)].endIndex)))

MinCells == 4
ItemIndex == 1
QtyIndex == 3

(***************************************************************************)
(* The body of the innermost loop of extractDemandData: the rows one body  *)
(* row pushes (none or one), or a throw.  Array index i of the source is   *)
(* position i + 1 here.                                                    *)
(***************************************************************************)
ExtractRow(document, row, storeId, submissionDate) ==
  IF ~(IsSome(row.cells) /\ Len(Get(row.cells)) >= MinCells)
  THEN Returned(<<>>)
  ELSE LET itemCell == Get(row.cells)[ItemIndex + 1]
           qtyCell == Get(row.cells)[QtyIndex + 1]
       IN IF ~IsSome(itemCell.layout) \/ ~IsSome(qtyCell.layout)
          THEN Thrown
          ELSE LET itemText == getTextFromSpan(document, Get(itemCell.layout).textAnchor)
                   qtyText == getTextFromSpan(document, Get(qtyCell.layout).textAnchor)
               IN IF itemText.thrown \/ qtyText.thrown
                  THEN Thrown
                  ELSE LET itemName == Trim(itemText.value)
                           quantity == Quantity(qtyText.value)
                       IN IF Includes(FIXED_ITEM_LIST, itemName) /\ Len(quantity) > 0
                          THEN Returned(<< <<submissionDate, storeId, itemName, quantity>> >>)
                          ELSE Returned(<<>>)

\* a row loop that puts each new row in front of those already pushed
RECURSIVE ExtractRowsPrepend(_, _, _, _, _, _)
ExtractRowsPrepend(document, rows, i, acc, storeId, submissionDate) ==
  IF i > Len(rows)
  THEN Returned(acc)
  ELSE LET r == ExtractRow(document, rows[i], storeId, submissionDate)
       IN IF r.thrown
          THEN Thrown
          ELSE ExtractRowsPrepend(document, rows, i + 1, r.value \o acc,
                                  storeId, submissionDate)

\* for (const row of table.bodyRows): rows i..Len in order, appending to acc
RECURSIVE ExtractRows(_, _, _, _, _, _)
ExtractRows(document, rows, i, acc, storeId, submissionDate) ==
  IF i > Len(rows)
  THEN Returned(acc)
  ELSE LET r == ExtractRow(document, rows[i], storeId, submissionDate)
       IN IF r.thrown
          THEN Thrown
          ELSE ExtractRows(document, rows, i + 1, acc \o r.value, storeId, submissionDate)

\* for (const table of page.tables); iterating an undefined bodyRows throws
RECURSIVE ExtractTables(_, _, _, _, _, _)
ExtractTables(document, tables, i, acc, storeId, submissionDate) ==
  IF i > Len(tables)
  THEN Returned(acc)
  ELSE IF ~IsSome(tables[i].bodyRows)
       THEN Thrown
       ELSE LET r == ExtractRows(document, Get(tables[i].bodyRows), 1, acc,
                                 storeId, submissionDate)
            IN IF r.thrown
               THEN Thrown
               ELSE ExtractTables(document, tables, i + 1, r.value, storeId, submissionDate)

\* for (const page of document.pages); a page without tables is passed over
RECURSIVE ExtractPages(_, _, _, _, _, _)
ExtractPages(document, pages, i, acc, storeId, submissionDate) ==
  IF i > Len(pages)
  THEN Returned(acc)
  ELSE IF ~IsSome(pages[i].tables)
       THEN ExtractPages(document, pages, i + 1, acc, storeId, submissionDate)
       ELSE LET r == ExtractTables(document, Get(pages[i].tables), 1, acc,
                                   storeId, submissionDate)
            IN IF r.thrown
               THEN Thrown
               ELSE ExtractPages(document, pages, i + 1, r.value, storeId, submissionDate)

(***************************************************************************)
(* extractDemandData(document, storeId, submissionDate).  The handler      *)
(* passes result.document, which is None when the processor returned no    *)
(* document: reading document.pages then throws.                           *)
(***************************************************************************)
extractDemandData(document, storeId, submissionDate) ==
  IF ~IsSome(document)
  THEN Thrown
  ELSE IF IsSome(Get(document).pages) /\ Len(Get(Get(document).pages)) > 0
       THEN ExtractPages(Get(document), Get(Get(document).pages), 1, <<>>,
                         storeId, submissionDate)
       ELSE Returned(<<>>)

(***************************************************************************)
(* Documents the OCR service may return.  One text buffer holds the cells  *)
(* of six body rows, each cell followed by a line break:                   *)
(*   Row1  1 | Sugar  | kg | 5 kg      Row4  Spices | -   (two cells)      *)
(*   Row2  2 |  Rice  | kg | 12        Row5  4 | Poha | kg | 03            *)
(*   Row3  3 | Suger  | kg | 7         Row6  5 | Atta | kg | n/a           *)
(***************************************************************************)
SheetText ==
  <<"1","\n","S","u","g","a","r","\n","k","g","\n","5"," ","k","g","\n",
    "2","\n"," ","R","i","c","e"," ","\n","k","g","\n","1","2","\n",
    "3","\n","S","u","g","e","r","\n","k","g","\n","7","\n",
    "S","p","i","c","e","s","\n","-","\n",
    "4","\n","P","o","h","a","\n","k","g","\n","0","3","\n",
    "5","\n","A","t","t","a","\n","k","g","\n","n","/","a","\n">>

MkCell(s, e) ==
  [layout |-> Some([textAnchor |->
     Some([textSegments |-> Some(<<[startIndex |-> IF s = 0 THEN None ELSE Some(s),
                                    endIndex |-> Some(e)]>>)])])]
MkRow(cells) == [cells |-> Some(cells)]
MkTable(rows) == [bodyRows |-> Some(rows)]
MkPage(tables) == [tables |-> Some(tables)]
MkDoc(pages) == [text |-> Some(SheetText), pages |-> Some(pages)]

Row1 == MkRow(<<MkCell(0,1), MkCell(2,7), MkCell(8,10), MkCell(11,15)>>)
Row2 == MkRow(<<MkCell(16,17), MkCell(18,24), MkCell(25,27), MkCell(28,30)>>)
Row3 == MkRow(<<MkCell(31,32), MkCell(33,38), MkCell(39,41), MkCell(42,43)>>)
Row4 == MkRow(<<MkCell(44,50), MkCell(51,52)>>)
Row5 == MkRow(<<MkCell(53,54), MkCell(55,59), MkCell(60,62), MkCell(63,65)>>)
Row6 == MkRow(<<MkCell(66,67), MkCell(68,72), MkCell(73,75), MkCell(76,79)>>)

DocNoPages == [text |-> Some(SheetText), pages |-> None]
DocZeroPages == MkDoc(<<>>)
DocNoTables == MkDoc(<<[tables |-> None], [tables |-> None]>>)
DocSugar == MkDoc(<<MkPage(<<MkTable(<<Row1>>)>>)>>)
DocThree ==
  MkDoc(<<MkPage(<<MkTable(<<Row1, Row3, Row4>>), MkTable(<<Row2>>)>>),
          [tables |-> None],
          MkPage(<<MkTable(<<Row6, Row5>>)>>)>>)
DocNoBodyRows == MkDoc(<<MkPage(<<MkTable(<<Row1>>), [bodyRows |-> None]>>)>>)

\* result.document of a resolved processDocument call
OcrDocuments ==
  { None, Some(DocNoPages), Some(DocZeroPages), Some(DocNoTables),
    Some(DocSugar), Some(DocThree), Some(DocNoBodyRows) }

(***************************************************************************)
(* The requests, the clock and the outcomes of the external calls.         *)
(***************************************************************************)
Requests == {"r1", "r2"}

\* Date.now() advances at most MaxClock times while the requests are handled
MaxClock == 1
\* the largest updatedRows the append call reports
MaxUpdated == 3

Methods == {"POST", "GET"}

FullBody ==
  [storeId |-> Some("S01"), date |-> Some("2024-01-01"), image |-> Some("aW1n"),
   mimeType |-> Some("image/jpeg"), filename |-> Some("sheet.jpg")]

\* req.body: a complete body, and
\* bodies lacking one required field (undefined, or the empty string)
Bodies ==
  { FullBody,
    [FullBody EXCEPT !.storeId = None],
    [FullBody EXCEPT !.date = Some("")],
    [FullBody EXCEPT !.image = None],
    [FullBody EXCEPT !.mimeType = None] }

\* !x for a string property: undefined or the empty string
Falsy(o) == ~IsSome(o) \/ Get(o) = ""

\* error.code of a rejected external call: undefined, or a code
ErrorCodes == {None, Some("NotFound")}
MkError(code, message) == [code |-> code, message |-> message]
\* what extractDemandData throws: a TypeError, which has no code
TypeError == MkError(None, "TypeError")

VARIABLES
  now,       \* the clock read by Date.now()
  bucket,    \* the objects of the bucket: key -> the request whose bytes it holds
  sheet,     \* the rows of DemandLog, in append order
  pc,        \* where each request's handler stands
  method,    \* req.method
  body,      \* req.body
  key,       \* gcsFilename
  document,  \* result.document
  rows,      \* newDemandRows
  error,     \* the error caught by the handler's catch block
  response,  \* what res.status(..).json(..) sent
  log,       \* the external calls each request issued, in order, with outcomes
  docReq,    \* the request handled by the document handler: its locals and calls
  sheet1,    \* the rows of Sheet1, in append order
  anchor,    \* getTextFromSpan applied alone: its textAnchor argument
  spanText,  \* ... and what the call did, once it was made
  graph,     \* extractDemandData applied alone: its document argument
  extracted  \* ... and what the call did, once it was made

vars == <<now, bucket, sheet, pc, method, body, key, document, rows, error, response, log,
          docReq, sheet1, anchor, spanText, graph, extracted>>

\* what the demand-sheet handler never touches
aside == <<docReq, sheet1, anchor, spanText, graph, extracted>>

\* `demands/${storeId}-${Date.now()}-${filename || 'image.jpg'}`: the parts
\* of the name, kept apart (equal parts give an equal name)
GcsFilename(storeId, time, filename) ==
  <<"demands", storeId, time, IF Falsy(filename) THEN "image.jpg" ELSE Get(filename)>>

\* a validation that forgets the MIME type
MissingRequiredNoMime(b) ==
  Falsy(b.storeId) \/ Falsy(b.date) \/ Falsy(b.image)

\* if (!storeId || !date || !image || !mimeType)
MissingRequired(b) ==
  Falsy(b.storeId) \/ Falsy(b.date) \/ Falsy(b.image) \/ Falsy(b.mimeType)

MethodNotAllowed == [status |-> 405, body |-> [error |-> "Method Not Allowed"]]
BadRequest == [status |-> 400, body |-> [error |-> "Missing required data in request body."]]
WarningResponse ==
  [status |-> 200,
   body |-> [status |-> "warning",
             message |-> <<"Successfully processed image, but no recognizable quantities were found.">>,
             rows_added |-> 0]]
\* a count of zero updated rows answered as a failure
SuccessResponseUnlessZero(rowsAppended) ==
  IF rowsAppended = 0
  THEN [status |-> 500,
        body |-> [status |-> "error",
                  message |-> <<"A critical error occurred during OCR, GCS upload, or Sheets update.">>,
                  details |-> "no rows updated"]]
  ELSE [status |-> 200,
        body |-> [status |-> "success",
                  message |-> <<"Successfully processed demand.", rowsAppended,
                                "item rows appended to Google Sheet.">>,
                  rows_added |-> rowsAppended]]

SuccessResponse(rowsAppended) ==
  [status |-> 200,
   body |-> [status |-> "success",
             message |-> <<"Successfully processed demand.", rowsAppended,
                           "item rows appended to Google Sheet.">>,
             rows_added |-> rowsAppended]]
\* an error response that drops the caught error's message
ErrorResponseGeneric(e) ==
  [status |-> 500,
   body |-> [status |-> "error",
             message |-> <<"A critical error occurred during OCR, GCS upload, or Sheets update.">>,
             details |-> "Unknown error."]]

ErrorResponse(e) ==
  [status |-> 500,
   body |-> [status |-> "error",
             message |-> <<"A critical error occurred during OCR, GCS upload, or Sheets update.">>,
             details |-> e.message]]

\* a default of one row where the sink reported none
RowsAppendedOrOne(updatedRows) ==
  IF IsSome(updatedRows) /\ Get(updatedRows) # 0 THEN Get(updatedRows) ELSE 1

\* updateResult.data.updates.updatedRows || 0
RowsAppended(updatedRows) == OrZero(updatedRows)

\* if (file && error.code !== 'NotFound')
CleanupGuard(e) == e.code # Some("NotFound")

\* steps 3 and 4 exchanged: the append first when there are rows
AfterExtractAppendFirst(newDemandRows) ==
  IF Len(newDemandRows) = 0 THEN "delete" ELSE "append"

\* a handler that returns without answering when no row was extracted
AfterExtractNoReply(newDemandRows) ==
  IF Len(newDemandRows) = 0 THEN "returned" ELSE "delete"

\* a handler that runs the OCR again when it extracted no row
AfterExtractRetryOcr(newDemandRows) ==
  IF Len(newDemandRows) = 0 THEN "ocr" ELSE "delete"

\* after extractDemandData returned: step 3, the delete, comes next
AfterExtract(newDemandRows) == "delete"

\* the empty-extraction branch left out
AfterDeleteAlwaysAppend(newDemandRows) == "append"

\* after the delete: the warning when no row was extracted, else step 4
AfterDelete(newDemandRows) == IF Len(newDemandRows) = 0 THEN "warn" ELSE "append"

\* One external call of a request: the call ("save", "ocr", "delete" for the
\* file.delete() of step 3, "append", "cleanup" for the file.delete() of the
\* catch block), whether it resolved, the message
\* of its rejection, the request whose bytes the object it touched held, and for
\* an append the rows it was given and the updatedRows it reported
Call(op, ok, message, owner, values, updated) ==
  [op |-> op, ok |-> ok, message |-> message, owner |-> owner,
   values |-> values, updated |-> updated]
Resolved(op, owner) == Call(op, TRUE, "", owner, <<>>, None)
Rejected(op, message) == Call(op, FALSE, message, None, <<>>, None)
\* the request whose bytes the object at k holds, if the object exists
Owner(k) == IF k \in DOMAIN bucket THEN Some(bucket[k]) ELSE None
Remove(k) == [x \in DOMAIN bucket \ {k} |-> bucket[x]]

\* the document handler before its request arrives
DocIdle ==
  [pc |-> "idle", method |-> "none", body |-> [documentName |-> None, base64File |-> None],
   gcsFilepath |-> None, gcsUri |-> None, result |-> None, error |-> None,
   response |-> None, log |-> <<>>, uploads |-> {}]

\* no request received yet, by either handler
InitRequests ==
  /\ now = 0
  /\ bucket = <<>>
  /\ sheet = <<>>
  /\ pc = [r \in Requests |-> "idle"]
  /\ method = [r \in Requests |-> "none"]
  /\ body = [r \in Requests |-> FullBody]
  /\ key = [r \in Requests |-> None]
  /\ document = [r \in Requests |-> None]
  /\ rows = [r \in Requests |-> <<>>]
  /\ error = [r \in Requests |-> None]
  /\ response = [r \in Requests |-> None]
  /\ log = [r \in Requests |-> <<>>]
  /\ docReq = DocIdle
  /\ sheet1 = <<>>

Init ==
  /\ InitRequests
  /\ anchor = None /\ spanText = None
  /\ graph = None /\ extracted = None

Tick ==
  /\ now < MaxClock
  /\ now' = now + 1
  /\ UNCHANGED <<bucket, sheet, pc, method, body, key, document, rows, error, response, log>>
  /\ UNCHANGED aside

Respond(r, resp) ==
  /\ response' = [response EXCEPT ![r] = Some(resp)]
  /\ pc' = [pc EXCEPT ![r] = "done"]

\* the catch block up to its cleanup: the error is kept, and either the
\* cleanup delete is issued or the error response is sent at once
Catch(r, e) ==
  /\ error' = [error EXCEPT ![r] = Some(e)]
  /\ IF CleanupGuard(e)
     THEN /\ pc' = [pc EXCEPT ![r] = "cleanup"]
          /\ UNCHANGED response
     ELSE Respond(r, ErrorResponse(e))

\* the handler from its entry to the call of file.save
Start(r) ==
  /\ pc[r] = "idle"
  /\ \E m \in Methods, b \in Bodies :
       /\ method' = [method EXCEPT ![r] = m]
       /\ body' = [body EXCEPT ![r] = b]
       /\ IF m # "POST"
          THEN Respond(r, MethodNotAllowed) /\ UNCHANGED key
          ELSE IF MissingRequired(b)
               THEN Respond(r, BadRequest) /\ UNCHANGED key
               ELSE /\ key' = [key EXCEPT ![r] =
                                 Some(GcsFilename(Get(b.storeId), now, b.filename))]
                    /\ pc' = [pc EXCEPT ![r] = "save"]
                    /\ UNCHANGED response
  /\ UNCHANGED <<now, bucket, sheet, document, rows, error, log>>
  /\ UNCHANGED aside

\* await file.save(imageBuffer, ...)
Save(r) ==
  /\ pc[r] = "save"
  /\ \/ /\ bucket' = (Get(key[r]) :> r) @@ bucket
        /\ log' = [log EXCEPT ![r] = Append(@, Resolved("save", Owner(Get(key[r]))))]
        /\ pc' = [pc EXCEPT ![r] = "ocr"]
        /\ UNCHANGED <<error, response>>
     \/ /\ \E c \in ErrorCodes : Catch(r, MkError(c, "blob write failed"))
        /\ log' = [log EXCEPT ![r] = Append(@, Rejected("save", "blob write failed"))]
        /\ UNCHANGED bucket
  /\ UNCHANGED <<now, sheet, method, body, key, document, rows>>
  /\ UNCHANGED aside

\* await docaiClient.processDocument({document: {gcsUri}}), then
\* extractDemandData(result.document, storeId, date)
Ocr(r) ==
  /\ pc[r] = "ocr"
  /\ \/ /\ Get(key[r]) \in DOMAIN bucket
        /\ \E d \in OcrDocuments :
             LET ex == extractDemandData(d, Get(body[r].storeId), Get(body[r].date))
             IN /\ document' = [document EXCEPT ![r] = d]
                /\ IF ex.thrown
                   THEN Catch(r, TypeError) /\ UNCHANGED rows
                   ELSE /\ rows' = [rows EXCEPT ![r] = ex.value]
                        /\ pc' = [pc EXCEPT ![r] = AfterExtract(ex.value)]
                        /\ UNCHANGED <<error, response>>
        /\ log' = [log EXCEPT ![r] = Append(@, Resolved("ocr", Owner(Get(key[r]))))]
     \/ /\ \E c \in ErrorCodes : Catch(r, MkError(c, "OCR failed"))
        /\ log' = [log EXCEPT ![r] = Append(@, Rejected("ocr", "OCR failed"))]
        /\ UNCHANGED <<document, rows>>
  /\ UNCHANGED <<now, bucket, sheet, method, body, key>>
  /\ UNCHANGED aside

\* step 3: await file.delete(), then the empty-extraction branch
Delete(r) ==
  /\ pc[r] = "delete"
  /\ \/ /\ Get(key[r]) \in DOMAIN bucket
        /\ bucket' = Remove(Get(key[r]))
        /\ log' = [log EXCEPT ![r] = Append(@, Resolved("delete", Owner(Get(key[r]))))]
        /\ IF AfterDelete(rows[r]) = "warn"
           THEN Respond(r, WarningResponse)
           ELSE pc' = [pc EXCEPT ![r] = "append"] /\ UNCHANGED response
        /\ UNCHANGED error
     \/ /\ \E c \in ErrorCodes : Catch(r, MkError(c, "blob delete failed"))
        /\ log' = [log EXCEPT ![r] = Append(@, Rejected("delete", "blob delete failed"))]
        /\ UNCHANGED bucket
  /\ UNCHANGED <<now, sheet, method, body, key, document, rows>>
  /\ UNCHANGED aside

\* step 4: await sheets.values.append({requestBody: {values: newDemandRows}})
AppendRows(r) ==
  /\ pc[r] = "append"
  /\ \/ /\ \E u \in {None} \cup {Some(k) : k \in 0..MaxUpdated} :
             /\ Respond(r, SuccessResponse(RowsAppended(u)))
             /\ log' = [log EXCEPT ![r] =
                          Append(@, Call("append", TRUE, "", None, rows[r], u))]
        /\ sheet' = sheet \o rows[r]
        /\ UNCHANGED error
     \/ /\ \E c \in ErrorCodes : Catch(r, MkError(c, "append failed"))
        /\ log' = [log EXCEPT ![r] =
                     Append(@, Call("append", FALSE, "append failed", None, rows[r], None))]
        /\ UNCHANGED sheet
  /\ UNCHANGED <<now, bucket, method, body, key, document, rows>>
  /\ UNCHANGED aside

\* the cleanup of the catch block: await file.delete() in its own try, then
\* the error response whatever the delete did
Cleanup(r) ==
  /\ pc[r] = "cleanup"
  /\ \/ /\ Get(key[r]) \in DOMAIN bucket
        /\ bucket' = Remove(Get(key[r]))
        /\ log' = [log EXCEPT ![r] = Append(@, Resolved("cleanup", Owner(Get(key[r]))))]
     \/ /\ log' = [log EXCEPT ![r] = Append(@, Rejected("cleanup", "blob delete failed"))]
        /\ UNCHANGED bucket
  /\ Respond(r, ErrorResponse(Get(error[r])))
  /\ UNCHANGED <<now, sheet, method, body, key, document, rows, error>>
  /\ UNCHANGED aside

Next ==
  \/ Tick
  \/ \E r \in Requests :
       \/ Start(r)
       \/ Save(r)
       \/ Ocr(r)
       \/ Delete(r)
       \/ AppendRows(r)
       \/ Cleanup(r)

Spec == Init /\ [][Next]_vars

\* one awaited call of request r returning or failing
Step(r) == Save(r) \/ Ocr(r) \/ Delete(r) \/ AppendRows(r) \/ Cleanup(r)

\* every external call a request is waiting for eventually returns or fails
LiveSpec == Init /\ [][Next]_vars /\ \A r \in Requests : WF_vars(Step(r))

(***************************************************************************)
(* The document handler (part_001): one request, from its entry to its     *)
(* response.  docReq holds the handler's locals (gcsFilepath, gcsUri, the  *)
(* OCR result, the caught error), its position, its response, the log of   *)
(* its external calls, and the objects stored under uploads/ (names under  *)
(* uploads/ and under demands/ never meet); sheet1 is the sheet it appends *)
(* to.                                                                     *)
(***************************************************************************)
DocMethods == {"OPTIONS", "POST", "GET"}
DocName == <<"Q","1",".","p","d","f">>
DocBodies ==
  [documentName : {None, Some(<<>>), Some(DocName)},
   base64File : {None, Some("JVBERi0=")}]
\* Math.random().toString(36).substring(2, 8)
UniqueIds == {"k3x9q1", "zz0a7b"}
TextLimit == 500

\* documentName.replace(/[^a-z0-9]/gi, '_')
AlphaNum ==
  Digits \cup
  {"a","b","c","d","e","f","g","h","i","j","k","l","m","n","o","p","q","r","s","t","u",
   "v","w","x","y","z","A","B","C","D","E","F","G","H","I","J","K","L","M","N","O","P",
   "Q","R","S","T","U","V","W","X","Y","Z"}
Sanitize(name) == [i \in 1..Len(name) |-> IF name[i] \in AlphaNum THEN name[i] ELSE "_"]

\* `uploads/${...}-${timestamp}-${uniqueId}.pdf`, the parts kept apart
GcsFilepath(documentName, timestamp, uniqueId) ==
  <<"uploads", Sanitize(documentName), timestamp, uniqueId, ".pdf">>
GcsUri(gcsFilepath) == <<"gs://", gcsFilepath>>
PublicUrl(gcsFilepath) == <<"https://storage.googleapis.com/", gcsFilepath>>
\* gcsUri.substring(`gs://${GCS_BUCKET_NAME}/`.length)
PathOfUri(gcsUri) == gcsUri[2]

\* what processDocument resolves to: result.document absent, without text,
\* or with text and entities
DocResults ==
  {[document |-> None],
   [document |-> Some([text |-> None, entities |-> None])],
   [document |-> Some([text |-> Some(<<"T","o","t","a","l"," ","4","2">>),
                       entities |-> Some(<<[type |-> "total", mentionText |-> Some("42")],
                                           [type |-> "total", mentionText |-> None]>>)])]}

\* result.document?.text || 'No text extracted.'
DocumentText(result) ==
  IF IsSome(result.document) /\ IsSome(Get(result.document).text)
     /\ Get(Get(result.document).text) # <<>>
  THEN Get(Get(result.document).text)
  ELSE <<"No text extracted.">>

\* entities.forEach(e => extractedData[e.type] = e.mentionText || ... || ''):
\* the pairs in order, a later entity overwriting an earlier one of its type
RECURSIVE Entities(_, _, _)
Entities(es, i, acc) ==
  IF i > Len(es)
  THEN acc
  ELSE Entities(es, i + 1,
                [t \in DOMAIN acc \cup {es[i].type} |->
                   IF t = es[i].type
                   THEN (IF Falsy(es[i].mentionText) THEN "" ELSE Get(es[i].mentionText))
                   ELSE acc[t]])
ExtractedData(result) ==
  IF IsSome(result.document) /\ IsSome(Get(result.document).entities)
  THEN Entities(Get(Get(result.document).entities), 1, <<>>)
  ELSE <<>>

\* documentText.substring(0, 500) + (documentText.length > 500 ? '...' : '')
Truncated(text) ==
  Substring(text, 0, TextLimit) \o (IF Len(text) > TextLimit THEN <<"...">> ELSE <<>>)

DataRow(time, documentName, gcsFilepath, result) ==
  [time |-> time, name |-> documentName, url |-> PublicUrl(gcsFilepath),
   text |-> Truncated(DocumentText(result)), data |-> ExtractedData(result)]

DocPreflight == [status |-> 200, body |-> None]
DocMethodNotAllowed ==
  [status |-> 405, body |-> Some([error |-> "Method Not Allowed. Use POST."])]
DocBadRequest ==
  [status |-> 400,
   body |-> Some([error |-> "Missing documentName or base64File in request body."])]
DocSuccess(gcsFilepath, result) ==
  [status |-> 200,
   body |-> Some([message |-> "Document processed and data saved successfully.",
                  gcsUrl |-> PublicUrl(gcsFilepath),
                  documentText |-> Truncated(DocumentText(result)),
                  extractedData |-> ExtractedData(result)])]
\* details: error.message || 'Unknown error.'
DocError(e) ==
  [status |-> 500,
   body |-> Some([error |-> "An internal server error occurred during processing.",
                  details |-> IF e.message = "" THEN "Unknown error." ELSE e.message])]

\* if (!documentName || !base64File)
DocMissing(b) ==
  \/ ~IsSome(b.documentName) \/ Get(b.documentName) = <<>>
  \/ Falsy(b.base64File)

\* if (gcsUri): the cleanup is tried only once gcsUri was assigned
DocCleanupGuard(gcsUri) == IsSome(gcsUri)

DocRespond(d, resp) == [d EXCEPT !.response = Some(resp), !.pc = "done"]
DocLogged(d, call) == [d EXCEPT !.log = Append(@, call)]
\* the catch block up to its cleanup
DocCatch(d, e) ==
  IF DocCleanupGuard(d.gcsUri)
  THEN [d EXCEPT !.error = Some(e), !.pc = "cleanup"]
  ELSE DocRespond([d EXCEPT !.error = Some(e)], DocError(e))
DocFailed(d, op, message) ==
  DocCatch(DocLogged(d, Rejected(op, message)), MkError(None, message))

DocUnchanged ==
  UNCHANGED <<now, bucket, sheet, pc, method, body, key, document, rows, error,
              response, log, anchor, spanText, graph, extracted>>

\* the handler from its entry to the call of file.save
DStart ==
  /\ docReq.pc = "idle"
  /\ \E m \in DocMethods, b \in DocBodies, u \in UniqueIds :
       LET d == [docReq EXCEPT !.method = m, !.body = b]
       IN docReq' =
            IF m = "OPTIONS" THEN DocRespond(d, DocPreflight)
            ELSE IF m # "POST" THEN DocRespond(d, DocMethodNotAllowed)
            ELSE IF DocMissing(b) THEN DocRespond(d, DocBadRequest)
            ELSE [d EXCEPT !.gcsFilepath = Some(GcsFilepath(Get(b.documentName), now, u)),
                           !.pc = "save"]
  /\ UNCHANGED sheet1
  /\ DocUnchanged

\* await file.save(dataBuffer, ...)
DSave ==
  /\ docReq.pc = "save"
  /\ \/ docReq' = [DocLogged(docReq, Resolved("save", None))
                     EXCEPT !.uploads = @ \cup {Get(docReq.gcsFilepath)}, !.pc = "public"]
     \/ docReq' = DocFailed(docReq, "save", "blob write failed")
  /\ UNCHANGED sheet1
  /\ DocUnchanged

\* await file.makePublic(), then gcsUri = ...
DMakePublic ==
  /\ docReq.pc = "public"
  /\ \/ docReq' = [DocLogged(docReq, Resolved("public", None))
                     EXCEPT !.gcsUri = Some(GcsUri(Get(docReq.gcsFilepath))), !.pc = "ocr"]
     \/ docReq' = DocFailed(docReq, "public", "makePublic failed")
  /\ UNCHANGED sheet1
  /\ DocUnchanged

\* await processorClient.processDocument({name, rawDocument})
DOcr ==
  /\ docReq.pc = "ocr"
  /\ \/ \E res \in DocResults :
          docReq' = [DocLogged(docReq, Resolved("ocr", None))
                       EXCEPT !.result = Some(res), !.pc = "auth"]
     \/ docReq' = DocFailed(docReq, "ocr", "OCR failed")
  /\ UNCHANGED sheet1
  /\ DocUnchanged

\* await getSheetsClient(): auth.authorize()
DAuth ==
  /\ docReq.pc = "auth"
  /\ \/ docReq' = [DocLogged(docReq, Resolved("auth", None)) EXCEPT !.pc = "append"]
     \/ docReq' = DocFailed(docReq, "auth", "authorize failed")
  /\ UNCHANGED sheet1
  /\ DocUnchanged

\* await sheets.spreadsheets.values.append(...), then the success response
DAppend ==
  /\ docReq.pc = "append"
  /\ LET dataRow == DataRow(now, Get(docReq.body.documentName),
                            Get(docReq.gcsFilepath), Get(docReq.result))
     IN \/ /\ docReq' =
                DocRespond(DocLogged(docReq, Call("append", TRUE, "", None, <<dataRow>>, None)),
                           DocSuccess(Get(docReq.gcsFilepath), Get(docReq.result)))
           /\ sheet1' = Append(sheet1, dataRow)
        \/ /\ docReq' =
                DocCatch(DocLogged(docReq, Call("append", FALSE, "append failed", None,
                                                <<dataRow>>, None)),
                         MkError(None, "append failed"))
           /\ UNCHANGED sheet1
  /\ DocUnchanged

\* the cleanup of the catch block: the delete in its own try, then the 500
DCleanup ==
  /\ docReq.pc = "cleanup"
  /\ \/ docReq' =
          DocRespond([DocLogged(docReq, Resolved("cleanup", None))
                        EXCEPT !.uploads = @ \ {PathOfUri(Get(docReq.gcsUri))}],
                     DocError(Get(docReq.error)))
     \/ docReq' =
          DocRespond(DocLogged(docReq, Rejected("cleanup", "blob delete failed")),
                     DocError(Get(docReq.error)))
  /\ UNCHANGED sheet1
  /\ DocUnchanged

\* the demand-sheet handler serving one request
Demand(r) ==
  /\ (Start(r) \/ Save(r) \/ Ocr(r) \/ Delete(r) \/ AppendRows(r) \/ Cleanup(r))
  /\ UNCHANGED <<docReq, sheet1>>

BothNext ==
  \/ Tick
  \/ Demand("r1")
  \/ DStart
  \/ DSave
  \/ DMakePublic
  \/ DOcr
  \/ DAuth
  \/ DAppend
  \/ DCleanup

\* one request to each handler
BothSpec == Init /\ [][BothNext]_vars

(***************************************************************************)
(* getTextFromSpan applied alone, to every anchor of the data model over   *)
(* one text buffer: absent, without segment list, and with up to           *)
(* MaxSegments segments whose indices (absent, or 0..MaxIndex) are ordered *)
(* and do not overlap.                                                     *)
(***************************************************************************)
MaxSegments == 2
MaxIndex == 4

SpanBuffer == <<"S","u","g","a","r"," ","5","k","g">>
SpanDocument == [text |-> Some(SpanBuffer), pages |-> None]

Indices == {None} \cup {Some(n) : n \in 0..MaxIndex}
Segments ==
  {s \in [startIndex : Indices, endIndex : Indices] :
     OrZero(s.startIndex) <= OrZero(s.endIndex)}
SegmentLists ==
  UNION {{l \in [1..n -> Segments] :
            \A i \in 1..(n - 1) : OrZero(l[i].endIndex) <= OrZero(l[i + 1].startIndex)}
         : n \in 0..MaxSegments}
Anchors ==
  {None, Some([textSegments |-> None])}
    \cup {Some([textSegments |-> Some(l)]) : l \in SegmentLists}

SpanInit ==
  /\ InitRequests
  /\ anchor \in Anchors /\ spanText = None
  /\ graph = None /\ extracted = None

ResolveSpan ==
  /\ spanText = None
  /\ spanText' = Some(getTextFromSpan(SpanDocument, anchor))
  /\ UNCHANGED <<now, bucket, sheet, pc, method, body, key, document, rows, error,
                 response, log, docReq, sheet1, anchor, graph, extracted>>

SpanSpec == SpanInit /\ [][ResolveSpan]_vars

(***************************************************************************)
(* extractDemandData applied alone, to every document made of up to        *)
(* MaxRows body rows, each of one of the kinds below, laid out in          *)
(* traversal order with every way of starting a new table or a new page    *)
(* between two rows.                                                       *)
(***************************************************************************)
MaxRows == 3

\* a row whose quantity cell is empty: its anchor has an empty segment list
RowBlankQty ==
  MkRow(<<MkCell(53,54), MkCell(55,59), MkCell(60,62),
          [layout |-> Some([textAnchor |-> Some([textSegments |-> Some(<<>>)])])]>>)

\* accepted (Sugar, 5), accepted after trimming (Rice, 12), misspelt item,
\* two cells only, quantity without digit, empty quantity cell
RowKinds == {Row1, Row2, Row3, Row4, Row6, RowBlankQty}
Cuts == {"row", "table", "page"}

\* rows[i..] added to pages (sequences of tables, which are sequences of
\* rows): each row goes to the last table, to a new table of the last page,
\* or to a new page, as the cut before it says
RECURSIVE Layout(_, _, _, _)
Layout(rs, cuts, i, pages) ==
  IF i > Len(rs)
  THEN pages
  ELSE LET np == Len(pages)
           nt == Len(pages[np])
       IN Layout(rs, cuts, i + 1,
            CASE cuts[i - 1] = "row" ->
                   [pages EXCEPT ![np] = [@ EXCEPT ![nt] = Append(@, rs[i])]]
              [] cuts[i - 1] = "table" ->
                   [pages EXCEPT ![np] = Append(@, <<rs[i]>>)]
              [] OTHER -> Append(pages, << <<rs[i]>> >>))

Graph(rs, cuts) ==
  IF Len(rs) = 0
  THEN MkDoc(<<>>)
  ELSE LET pages == Layout(rs, cuts, 2, << << <<rs[1]>> >> >>)
       IN MkDoc([p \in 1..Len(pages) |->
                   MkPage([t \in 1..Len(pages[p]) |-> MkTable(pages[p][t])])])

Graphs ==
  UNION {{Graph(rs, cuts) : rs \in [1..n -> RowKinds],
                            cuts \in [1..(IF n = 0 THEN 0 ELSE n - 1) -> Cuts]}
         : n \in 0..MaxRows}

ExtractInit ==
  /\ InitRequests
  /\ anchor = None /\ spanText = None
  /\ graph \in {Some(g) : g \in Graphs} /\ extracted = None

Extract ==
  /\ extracted = None
  /\ extracted' = Some(extractDemandData(graph, "S01", "2024-01-01"))
  /\ UNCHANGED <<now, bucket, sheet, pc, method, body, key, document, rows, error,
                 response, log, docReq, sheet1, anchor, spanText, graph>>

ExtractSpec == ExtractInit /\ [][Extract]_vars

(***************************************************************************)
(* Vocabulary of the properties.                                           *)
(***************************************************************************)
Done(r) == pc[r] = "done"
InFlight(r) == pc[r] \notin {"idle", "done"}
Calls(r, op) == {i \in 1..Len(log[r]) : log[r][i].op = op}
Resolves(r, op) == {i \in Calls(r, op) : log[r][i].ok}
Rejects(r, op) == {i \in Calls(r, op) : ~log[r][i].ok}
Sent(r) == Get(response[r])
\* the calls of file.delete(), at step 3 and in the catch block
Deletes(r) == Calls(r, "delete") \cup Calls(r, "cleanup")

\* the request reached step 3: the blob write and the OCR resolved and
\* extraction returned, so that the third call is the delete of step 3
ReachedStep3(r) ==
  /\ Len(log[r]) >= 3
  /\ log[r][1].op = "save" /\ log[r][1].ok
  /\ log[r][2].op = "ocr" /\ log[r][2].ok
  /\ log[r][3].op = "delete"

\* C1: when the blob write and the OCR succeeded and the delete that follows
\* extraction fails, the client still receives the success or the warning
\* response, never a server error caused by the delete.
C1_DeleteFailureNotEscalated ==
  \A r \in Requests :
    (Done(r) /\ ReachedStep3(r) /\ ~log[r][3].ok) =>
      /\ Sent(r).status = 200
      /\ Sent(r).body.status \in {"success", "warning"}

\* C2: every request whose blob write succeeded attempts at least one delete
\* of the blob before it responds, on every exit path, and no request writes
\* more than one blob.
C2_StagedBlobDeleteAttempted ==
  \A r \in Requests :
    /\ Cardinality(Calls(r, "save")) <= 1
    /\ (Done(r) /\ Resolves(r, "save") # {}) => Deletes(r) # {}

\* C3: when the blob write succeeded and the OCR invocation failed, a delete
\* of the blob is attempted before the response, and the response is the
\* server error whose details are the OCR error's message.
C3_OcrFailureCleansUpThenReports ==
  \A r \in Requests :
    (Done(r) /\ Resolves(r, "save") # {} /\ Rejects(r, "ocr") # {}) =>
      /\ Deletes(r) # {}
      /\ Sent(r).status = 500
      /\ Sent(r).body.status = "error"
      /\ Sent(r).body.details = "OCR failed"

\* C4 as stated: the stages run in the order blob write, OCR, append, delete:
\* every delete of a request that issued an append comes after the append.
C4_DeleteOnlyAfterAppend ==
  \A r \in Requests :
    \A i \in Deletes(r), j \in Calls(r, "append") : j < i

\* C4 as amended: the stages run in the order blob write, OCR, extraction,
\* delete, append: an append is the fourth call, issued after the blob write,
\* the OCR and the delete of step 3 each resolved in that order; the only
\* delete after an append is the cleanup delete that follows a failed append.
C4_DeleteBeforeAppend ==
  \A r \in Requests :
    \A j \in Calls(r, "append") :
      /\ j = 4
      /\ log[r][1].op = "save" /\ log[r][1].ok
      /\ log[r][2].op = "ocr" /\ log[r][2].ok
      /\ log[r][3].op = "delete" /\ log[r][3].ok
      /\ \A i \in Deletes(r) : i > j => (~log[r][j].ok /\ log[r][i].op = "cleanup")

\* a request whose append failed and was followed by the cleanup delete
C4_Witness ==
  \E r \in Requests :
    /\ Done(r)
    /\ Len(log[r]) = 5
    /\ log[r][3].op = "delete" /\ log[r][3].ok
    /\ log[r][4].op = "append" /\ ~log[r][4].ok
    /\ log[r][5].op = "cleanup"

\* C5: two requests handled at the same time never have the same blob key,
\* and no request overwrites, reads through OCR or deletes an object that
\* holds another request's bytes.
C5_KeysNeverShared ==
  /\ \A r1, r2 \in Requests :
       (r1 # r2 /\ InFlight(r1) /\ InFlight(r2)) => key[r1] # key[r2]
  /\ \A r \in Requests :
       \A i \in 1..Len(log[r]) : log[r][i].owner \in {None, Some(r)}

\* the body lacks one of the four required fields
Lacks(b) ==
  \E f \in {"storeId", "date", "image", "mimeType"} : b[f] = None \/ b[f] = Some("")

\* C6: a request that lacks the store identifier, the date, the image or the
\* MIME type is answered with a client error carrying {error}, status 400
\* for a POST, and issues no blob write, OCR, append or delete.
C6_MissingFieldRejected ==
  \A r \in Requests :
    (pc[r] # "idle" /\ Lacks(body[r])) =>
      /\ Done(r)
      /\ log[r] = <<>>
      /\ r \notin {bucket[k] : k \in DOMAIN bucket}
      /\ Sent(r).status \in {400, 405}
      /\ DOMAIN Sent(r).body = {"error"}
      /\ method[r] = "POST" => Sent(r).status = 400

\* a POST without MIME type that was answered 400
C6_Witness ==
  \E r \in Requests :
    /\ Done(r)
    /\ method[r] = "POST"
    /\ body[r].mimeType = None
    /\ body[r].storeId # None /\ body[r].date # None /\ body[r].image # None
    /\ Sent(r).status = 400

\* C7: no later stage is invoked after an earlier one failed: an OCR call
\* comes only after a resolved blob write, an append only after a resolved
\* OCR that returned a document from which at least one row was extracted;
\* after a failed blob write there is no OCR and no append, after a failed
\* OCR no append.
C7_NoStageAfterFailure ==
  \A r \in Requests :
    /\ \A i \in Calls(r, "ocr") : \E j \in Resolves(r, "save") : j < i
    /\ \A i \in Calls(r, "append") :
         /\ \E j \in Resolves(r, "ocr") : j < i
         /\ IsSome(document[r])
         /\ Len(log[r][i].values) >= 1
    /\ Rejects(r, "save") # {} => (Calls(r, "ocr") = {} /\ Calls(r, "append") = {})
    /\ Rejects(r, "ocr") # {} => Calls(r, "append") = {}

\* a request that appended, one whose blob write failed and one whose OCR failed
C7_Witness ==
  /\ \E r \in Requests : Done(r) /\ Calls(r, "append") # {}
  /\ \E r \in Requests : Done(r) /\ (Rejects(r, "save") # {} \/ Rejects(r, "ocr") # {})

\* C8: every failure of the blob write, the OCR or the append ends in the
\* uniform server error, status 500 and {status: "error", message, details},
\* whose details are the message of the call that failed.
C8_FailureBecomesServerError ==
  \A r \in Requests :
    \A i \in Rejects(r, "save") \cup Rejects(r, "ocr") \cup Rejects(r, "append") :
      /\ pc[r] \in {"cleanup", "done"}
      /\ Done(r) =>
           /\ Sent(r).status = 500
           /\ DOMAIN Sent(r).body = {"status", "message", "details"}
           /\ Sent(r).body.status = "error"
           /\ Sent(r).body.details = log[r][i].message

\* a request answered after its append failed
C8_Witness ==
  \E r \in Requests : Done(r) /\ Rejects(r, "append") # {}

\* the document has no pages, or pages none of which has a table
NoTables(d) ==
  \/ d.pages = None
  \/ \A i \in 1..Len(Get(d.pages)) :
       Get(d.pages)[i].tables = None \/ Get(d.pages)[i].tables = Some(<<>>)

\* C9: a submission whose document has no pages or no tables extracts no row
\* and is answered with the warning, rows_added 0, without any append.
C9_NoTablesGivesWarning ==
  \A r \in Requests :
    (Done(r) /\ Resolves(r, "ocr") # {} /\ IsSome(document[r]) /\ NoTables(Get(document[r]))) =>
      /\ rows[r] = <<>>
      /\ Calls(r, "append") = {}
      /\ Sent(r).status = 200
      /\ Sent(r).body.status = "warning"
      /\ Sent(r).body.rows_added = 0

\* updatedRows as the sink reported it, 0 when it reported none
Reported(u) == IF u = None THEN 0 ELSE Get(u)

\* C10: when the append resolves and reports k updated rows, the response is
\* the success with rows_added k, and the append was given exactly the rows
\* extracted from the document, at least one, in extraction order.
C10_SuccessReportsUpdatedRows ==
  \A r \in Requests :
    \A i \in Resolves(r, "append") :
      /\ Done(r)
      /\ Sent(r).status = 200
      /\ Sent(r).body.status = "success"
      /\ Sent(r).body.rows_added = Reported(log[r][i].updated)
      /\ Len(log[r][i].values) >= 1
      /\ log[r][i].values = rows[r]
      /\ Returned(log[r][i].values) =
           extractDemandData(document[r], Get(body[r].storeId), Get(body[r].date))

\* three rows extracted, in document order, and three reported
C10_Witness ==
  \E r \in Requests :
    /\ Done(r)
    /\ \E i \in Resolves(r, "append") :
         /\ log[r][i].values =
              << <<"2024-01-01", "S01", <<"S","u","g","a","r">>, <<"5">> >>,
                 <<"2024-01-01", "S01", <<"R","i","c","e">>, <<"1","2">> >>,
                 <<"2024-01-01", "S01", <<"P","o","h","a">>, <<"0","3">> >> >>
         /\ log[r][i].updated = Some(3)
    /\ Sent(r).body.rows_added = 3

\* C12: cleanup is not retried: no request issues file.delete() more than
\* once, whether the first delete failed or the append failed after the blob
\* was deleted.
C12_DeleteIssuedAtMostOnce ==
  \A r \in Requests : Cardinality(Deletes(r)) <= 1

\* C18: a delete is issued only for a blob this request wrote: a request whose
\* blob write failed issues no delete.
C18_NoDeleteWithoutWrite ==
  \A r \in Requests : Rejects(r, "save") # {} => Deletes(r) = {}

\* the rows the resolved appends of all requests were given, counted
RECURSIVE AppendedCount(_)
AppendedCount(rs) ==
  IF rs = {}
  THEN 0
  ELSE LET r == CHOOSE x \in rs : TRUE
           n == IF Resolves(r, "append") = {}
                THEN 0
                ELSE Len(log[r][CHOOSE i \in Resolves(r, "append") : TRUE].values)
       IN n + AppendedCount(rs \ {r})

\* C19: a request answered with the server error appended nothing, and a
\* request whose append resolved is answered with the success; the sheet
\* holds the rows of the resolved appends and nothing else.
C19_ErrorMeansNothingAppended ==
  /\ \A r \in Requests :
       /\ (Done(r) /\ Sent(r).status = 500) => Resolves(r, "append") = {}
       /\ Resolves(r, "append") # {} =>
            /\ Done(r)
            /\ Sent(r).status = 200
            /\ Sent(r).body.status = "success"
  /\ Len(sheet) = AppendedCount(Requests)

\* one request answered with the error after its append was rejected while
\* the other's append resolved
C19_Witness ==
  \E r1, r2 \in Requests :
    /\ Done(r1) /\ Sent(r1).status = 500 /\ Rejects(r1, "append") # {}
    /\ Done(r2) /\ Resolves(r2, "append") # {} /\ Len(sheet) > 0

\* the four shapes of a response to a POST
FourShapes(resp) ==
  \/ resp.status = 400 /\ DOMAIN resp.body = {"error"}
  \/ /\ resp.status = 200
     /\ DOMAIN resp.body = {"status", "message", "rows_added"}
     /\ resp.body.status = "warning" /\ resp.body.rows_added = 0
  \/ /\ resp.status = 200
     /\ DOMAIN resp.body = {"status", "message", "rows_added"}
     /\ resp.body.status = "success"
  \/ /\ resp.status = 500
     /\ DOMAIN resp.body = {"status", "message", "details"}
     /\ resp.body.status = "error"

\* C20: when every external call eventually returns or fails, every POST
\* request that was received eventually reaches its terminal state; it sends
\* one response, never replaced, of one of the four shapes, and has sent it
\* exactly when it is in its terminal state.
C20_EveryPostAnswered ==
  /\ \A r \in Requests : [](pc[r] # "idle" => <>Done(r))
  /\ [](\A r \in Requests :
          /\ Done(r) <=> response[r] # None
          /\ (Done(r) /\ method[r] = "POST") => FourShapes(Sent(r)))
  /\ [][\A r \in Requests : response[r] # None => response'[r] = response[r]]_vars

\* a POST answered with each of the four shapes is reachable; here the success
\* after all four calls resolved
C20_Witness ==
  \E r \in Requests :
    /\ Done(r) /\ method[r] = "POST"
    /\ Len(log[r]) = 4
    /\ Sent(r).body.status = "success"

\* the anchor carries a segment list, and the list
HasList(a) == a # None /\ Get(a).textSegments # None
SegmentsOf(a) == Get(Get(a).textSegments)
\* an index as the claim reads it: 0 when absent
IndexOf(o) == IF o = None THEN 0 ELSE Get(o)
\* the characters of text at offsets s, s+1, ..., e-1
Slice(text, s, e) == [i \in 1..(e - s) |-> text[s + i]]

\* C15: getTextFromSpan never throws; for an absent anchor, an anchor without
\* segment list and an anchor with an empty segment list it returns the empty
\* string; an absent startIndex or endIndex counts as 0.
C15_SpanNeverThrows ==
  spanText # None =>
    /\ ~Get(spanText).thrown
    /\ (~HasList(anchor) \/ SegmentsOf(anchor) = <<>>) => Get(spanText).value = <<>>
    /\ (HasList(anchor) /\ SegmentsOf(anchor) # <<>>) =>
         Get(spanText).value =
           Slice(SpanBuffer, IndexOf(SegmentsOf(anchor)[1].startIndex),
                 IndexOf(SegmentsOf(anchor)[Len(SegmentsOf(anchor))].endIndex))

\* C17: for an anchor with at least one segment, getTextFromSpan returns the
\* one contiguous piece of the text from the first segment's startIndex to
\* the last segment's endIndex, the characters between the segments included.
C17_SpanIsContiguous ==
  (spanText # None /\ HasList(anchor) /\ SegmentsOf(anchor) # <<>>) =>
    LET segs == SegmentsOf(anchor)
        first == IndexOf(segs[1].startIndex)
        last == IndexOf(segs[Len(segs)].endIndex)
    IN /\ ~Get(spanText).thrown
       /\ Len(Get(spanText).value) = last - first
       /\ \A i \in 1..(last - first) : Get(spanText).value[i] = SpanBuffer[first + i]

\* two segments, "Su" and "a", with "g" between them: the result is "Suga",
\* not "Sua"
C17_Witness ==
  /\ anchor = Some([textSegments |->
                 Some(<<[startIndex |-> None, endIndex |-> Some(2)],
                        [startIndex |-> Some(3), endIndex |-> Some(4)]>>)])
  /\ spanText = Some(Returned(<<"S","u","g","a">>))

\* the body rows of a document in page, then table, then row order
RECURSIVE Concat(_)
Concat(ss) == IF Len(ss) = 0 THEN <<>> ELSE Head(ss) \o Concat(Tail(ss))
BodyRows(d) ==
  Concat([p \in 1..Len(Get(d.pages)) |->
            Concat([t \in 1..Len(Get(Get(d.pages)[p].tables)) |->
                      Get(Get(Get(d.pages)[p].tables)[t].bodyRows)])])

\* the text of a cell as the span resolver's contract gives it: empty for an
\* anchor that is absent or carries no segment
CellText(d, cell) ==
  LET a == Get(cell.layout).textAnchor
  IN IF ~HasList(a) \/ SegmentsOf(a) = <<>>
     THEN <<>>
     ELSE Slice(Get(d.text), IndexOf(SegmentsOf(a)[1].startIndex),
                IndexOf(SegmentsOf(a)[Len(SegmentsOf(a))].endIndex))

\* the Demand Row a body row is to produce, if any
DemandRowOf(d, row) ==
  IF Len(Get(row.cells)) < 4
  THEN <<>>
  ELSE LET item == Trim(CellText(d, Get(row.cells)[2]))
           qty == SelectSeq(CellText(d, Get(row.cells)[4]), LAMBDA c : c \in Digits)
       IN IF (\E i \in 1..Len(FIXED_ITEM_LIST) : FIXED_ITEM_LIST[i] = item) /\ qty # <<>>
          THEN << <<"2024-01-01", "S01", item, qty>> >>
          ELSE <<>>

\* C13: extractDemandData produces one Demand Row (date, store, trimmed item,
\* digits of the quantity) for a body row exactly when the row has at least 4
\* cells, its trimmed item text is a catalog entry and its quantity text has a
\* digit; every other row produces no row and no error.
C13_OneRowIffAccepted ==
  extracted # None =>
    /\ ~Get(extracted).thrown
    /\ Get(extracted).value =
         Concat([i \in 1..Len(BodyRows(Get(graph))) |->
                   DemandRowOf(Get(graph), BodyRows(Get(graph))[i])])

\* C14: the rows extractDemandData returns are, in page, then table, then row
\* order, the rows its body rows produce one by one: nothing is reordered,
\* duplicated or merged.
C14_TraversalOrder ==
  (extracted # None /\ ~Get(extracted).thrown) =>
    Get(extracted).value =
      Concat([i \in 1..Len(BodyRows(Get(graph))) |->
                ExtractRow(Get(graph), BodyRows(Get(graph))[i], "S01", "2024-01-01").value])

\* Rice on one page and Sugar on the next, with a rejected row between them
C14_Witness ==
  /\ graph = Some(MkDoc(<<MkPage(<<MkTable(<<Row2, Row3>>)>>), MkPage(<<MkTable(<<Row1>>)>>)>>))
  /\ extracted =
       Some(Returned(<< <<"2024-01-01", "S01", <<"R","i","c","e">>, <<"1","2">> >>,
                        <<"2024-01-01", "S01", <<"S","u","g","a","r">>, <<"5">> >> >>))

DocDone == docReq.pc = "done"
DocCalls(op) == {i \in 1..Len(docReq.log) : docReq.log[i].op = op}
DocResolves(op) == {i \in DocCalls(op) : docReq.log[i].ok}
DocRejects(op) == {i \in DocCalls(op) : ~docReq.log[i].ok}

\* C16: in the document handler a blob that was written is deleted on every
\* exit path: whenever the blob write succeeded (and then makePublic, the OCR
\* or the sheet append failed, or all succeeded), a delete of that blob is
\* attempted before the response is sent.
C16_WrittenBlobDeleteAttempted ==
  (DocDone /\ DocResolves("save") # {}) => DocCalls("cleanup") # {}

\* C11: nothing is retried: in a request to either handler the blob write,
\* the OCR invocation and the spreadsheet append are each attempted at most
\* once, so none of them is issued again after it failed.
C11_NothingRetried ==
  /\ \A r \in Requests : \A op \in {"save", "ocr", "append"} :
       Cardinality(Calls(r, op)) <= 1
  /\ \A op \in {"save", "ocr", "append"} : Cardinality(DocCalls(op)) <= 1

\* both requests answered after a failure: the demand handler's OCR failed,
\* the document handler's append failed
C11_Witness ==
  /\ Done("r1") /\ Rejects("r1", "ocr") # {}
  /\ DocDone /\ DocRejects("append") # {} /\ Len(docReq.log) = 6

====
